---- MODULE Spec2Model ----
(***************************************************************************)
(* SimpleCAS (src/CAS.py): expression trees built from SymbolicVar,        *)
(* SymbolicNum and CompoundExpression objects, their operator-overload     *)
(* construction, string rendering and the commute() rewrite.               *)
(*                                                                         *)
(* Python objects live in a heap: heap[i] is the object with identity i.   *)
(* Python values (arguments, results, the `val` attribute) are records of  *)
(* one shape, so that any two of them can be compared.  Strings are        *)
(* sequences of Unicode code points, as ord()/chr() see them.              *)
(***************************************************************************)
EXTENDS Integers, Sequences, FiniteSets, TLC

VARIABLES heap, ret, exc, call, run

vars == <<heap, ret, exc, call, run>>

(***************************************************************************)
(* Bounds of the model and the inputs the calls are drawn from.            *)
(***************************************************************************)
MaxNodes == 3
MaxLeafNodes == 2
MaxLeafInt == 12
MaxNameLen == 2

----------------------------------------------------------------------------
(* Python values.  t is the type tag, s a string/list payload, i an int    *)
(* payload (or an object identity for a reference), o an Operator member   *)
(* name, box says the value is wrapped in a Node cell (Node(val)).         *)

V(t, s, i, o) == [t |-> t, s |-> s, i |-> i, o |-> o, box |-> FALSE]

PyNone == V("None", <<>>, 0, "")
PyNotImplemented == V("NotImplemented", <<>>, 0, "")
PyInt(i) == V("int", <<>>, i, "")
PyStr(s) == V("str", s, 0, "")
PyList(s) == V("list", s, 0, "")
PyRef(id) == V("ref", <<>>, id, "")

\* left/right of a childless Node: None
NoChild == 0

\* Node.__init__: a binary-tree cell holding val, left, right
Node_init(cls, val, left, right) ==
    [cls |-> cls, val |-> val, left |-> left, right |-> right]

\* Node(x) used as a value: the cell wrapping x, without children
Node(val) == [val EXCEPT !.box = TRUE]

\* Operator enum: the member values are the code points of the glyphs
OperatorNames == {"add", "sub", "mul", "div"}

OperatorValue(o) ==
    CASE o = "add" -> 43
      [] o = "sub" -> 45
      [] o = "mul" -> 215
      [] o = "div" -> 247

PyOp(o) == V("Operator", <<>>, OperatorValue(o), o)

\* Operator.__str__: chr(self.value)
Operator_str(v) == <<v.i>>

\* str(int): the decimal digits, most significant first
RECURSIVE IntStr(_)
IntStr(n) ==
    IF n < 0 THEN <<45>> \o IntStr(-n)
    ELSE IF n < 10 THEN <<48 + n>>
    ELSE IntStr(n \div 10) \o <<48 + (n % 10)>>

\* str() of a plain value
PlainStr(v) ==
    CASE v.t = "str" -> v.s
      [] v.t = "int" -> IntStr(v.i)
      [] v.t = "Operator" -> Operator_str(v)
      [] OTHER -> <<>>

\* Node.__str__: str(self.val)
Node_str(v) == PlainStr([v EXCEPT !.box = FALSE])

\* str(self.val) as Expression.__str__ evaluates it
ValStr(v) == IF v.box THEN Node_str(v) ELSE PlainStr(v)

\* a result of a call: the heap after it, the value returned, the exception
Result(h, r, e) == [heap |-> h, ret |-> r, exc |-> e]

ValueErrorSymbol == "ValueError: Symbol name must be an upper or lower-case string of length 1."
ValueErrorConstant == "ValueError: Constant must be a non-negative integer."
TypeErrorExpression == "TypeError: 'left' and 'right' must be of type Expression."
TypeErrorOperand == "TypeError: unsupported operand type(s)"

\* isinstance(x, Expression): every object of the heap is an Expression
IsExpression(h, x) == x.t = "ref" /\ x.i \in 1..Len(h)

----------------------------------------------------------------------------
(* Constructors *)

\* mutant: only lower-case letters are accepted
SymbolicVar_init_lower(h, name) ==
    IF /\ Len(name.s) = 1
       /\ name.t = "str"
       /\ (97 <= name.s[1] /\ name.s[1] <= 122)
    THEN Result(Append(h, Node_init("SymbolicVar", Node(name), NoChild, NoChild)),
                PyRef(Len(h) + 1), "")
    ELSE Result(h, PyNone, ValueErrorSymbol)

\* SymbolicVar.__init__
SymbolicVar_init(h, name) ==
    IF /\ Len(name.s) = 1
       /\ name.t = "str"
       /\ \/ (97 <= name.s[1] /\ name.s[1] <= 122)
          \/ (65 <= name.s[1] /\ name.s[1] <= 90)
    THEN Result(Append(h, Node_init("SymbolicVar", Node(name), NoChild, NoChild)),
                PyRef(Len(h) + 1), "")
    ELSE Result(h, PyNone, ValueErrorSymbol)

\* mutant: zero is rejected (0 < val)
SymbolicNum_init_positive(h, val) ==
    IF val.t = "int" /\ 0 < val.i
    THEN Result(Append(h, Node_init("SymbolicNum", Node(val), NoChild, NoChild)),
                PyRef(Len(h) + 1), "")
    ELSE Result(h, PyNone, ValueErrorConstant)

\* SymbolicNum.__init__
SymbolicNum_init(h, val) ==
    IF val.t = "int" /\ 0 <= val.i
    THEN Result(Append(h, Node_init("SymbolicNum", Node(val), NoChild, NoChild)),
                PyRef(Len(h) + 1), "")
    ELSE Result(h, PyNone, ValueErrorConstant)

\* CompoundExpression.__init__
CompoundExpression_init(h, op, left, right) ==
    IF ~IsExpression(h, left) \/ ~IsExpression(h, right)
    THEN Result(h, PyNone, TypeErrorExpression)
    ELSE Result(Append(h, Node_init("CompoundExpression", PyOp(op), left.i, right.i)),
                PyRef(Len(h) + 1), "")

----------------------------------------------------------------------------
(* Operator-overload construction *)

\* mutant: the `right` flag is ignored, self always goes left
Expression_op_noswap(h, self, other, op, right) ==
    IF other.t = "int"
    THEN LET num == SymbolicNum_init(h, other)
         IN  IF num.exc # "" THEN Result(h, PyNone, num.exc)
             ELSE CompoundExpression_init(num.heap, op, PyRef(self), num.ret)
    ELSE IF IsExpression(h, other)
    THEN CompoundExpression_init(h, op, PyRef(self), other)
    ELSE Result(h, PyNotImplemented, "")

\* Expression._op
Expression_op(h, self, other, op, right) ==
    IF other.t = "int"
    THEN LET num == SymbolicNum_init(h, other)
         IN  IF num.exc # "" THEN Result(h, PyNone, num.exc)
             ELSE IF ~right
                  THEN CompoundExpression_init(num.heap, op, PyRef(self), num.ret)
                  ELSE CompoundExpression_init(num.heap, op, num.ret, PyRef(self))
    ELSE IF IsExpression(h, other)
    THEN IF ~right
         THEN CompoundExpression_init(h, op, PyRef(self), other)
         ELSE CompoundExpression_init(h, op, other, PyRef(self))
    ELSE Result(h, PyNotImplemented, "")

\* SymbolicNum._op: the override whose body is `pass`
SymbolicNum_op(h, self, other, op, right) == Result(h, PyNone, "")

\* self._op(...): the method the class of self provides
Call_op(h, self, other, op, right) ==
    IF h[self].cls = "SymbolicNum"
    THEN SymbolicNum_op(h, self, other, op, right)
    ELSE Expression_op(h, self, other, op, right)

\* Expression.__add__, __sub__, __mul__, __truediv__
Expression_add(h, self, other) == Call_op(h, self, other, "add", FALSE)
Expression_sub(h, self, other) == Call_op(h, self, other, "sub", FALSE)
Expression_mul(h, self, other) == Call_op(h, self, other, "mul", FALSE)
Expression_truediv(h, self, other) == Call_op(h, self, other, "div", FALSE)

\* Expression.__radd__, __rsub__, __rmul__, __rtruediv__
Expression_radd(h, self, other) == Call_op(h, self, other, "add", TRUE)
Expression_rsub(h, self, other) == Call_op(h, self, other, "sub", TRUE)
Expression_rmul(h, self, other) == Call_op(h, self, other, "mul", TRUE)
Expression_rtruediv(h, self, other) == Call_op(h, self, other, "div", TRUE)

Forward(h, op, self, other) ==
    CASE op = "add" -> Expression_add(h, self, other)
      [] op = "sub" -> Expression_sub(h, self, other)
      [] op = "mul" -> Expression_mul(h, self, other)
      [] op = "div" -> Expression_truediv(h, self, other)

Reflected(h, op, self, other) ==
    CASE op = "add" -> Expression_radd(h, self, other)
      [] op = "sub" -> Expression_rsub(h, self, other)
      [] op = "mul" -> Expression_rmul(h, self, other)
      [] op = "div" -> Expression_rtruediv(h, self, other)

\* The Python expression `a op b` with at least one Expression operand: the
\* left operand's method when it is an Expression, otherwise (an int or str on
\* the left declines) the right operand's reflected method; NotImplemented
\* from the method that was tried ends in TypeError.
PyBinOp(h, op, a, b) ==
    LET r == IF IsExpression(h, a) THEN Forward(h, op, a.i, b)
             ELSE Reflected(h, op, b.i, a)
    IN  IF r.ret = PyNotImplemented THEN Result(h, PyNone, TypeErrorOperand) ELSE r

----------------------------------------------------------------------------
(* Rewrites, stubs and rendering *)

\* mutant: the swap is refused for the non-commutative operators
commute_legal(h, self) ==
    IF h[self].val.o \in {"add", "mul"}
    THEN [h EXCEPT ![self].left = h[self].right, ![self].right = h[self].left]
    ELSE h

\* mutant: two assignments in sequence instead of one tuple assignment
commute_sequential(h, self) ==
    [h EXCEPT ![self].left = h[self].right, ![self].right = h[self].right]

\* mutant: the contents of the two child objects are swapped, not the links
commute_by_value(h, self) ==
    LET l == h[self].left
        r == h[self].right
    IN  [i \in 1..Len(h) |-> IF i = l THEN h[r] ELSE IF i = r THEN h[l] ELSE h[i]]

\* mutant: self is stored where the old left child belongs
commute_self(h, self) ==
    [h EXCEPT ![self].left = h[self].right, ![self].right = self]

\* CompoundExpression.commute
commute(h, self) ==
    [h EXCEPT ![self].left = h[self].right, ![self].right = h[self].left]

\* Expression.__eq__, CompoundExpression.assoc_right / assoc_left,
\* SymbolicVar.specialize: bodies are `pass`
Expression_eq(h, self, other) == Result(h, PyNone, "")
assoc_right(h, self) == Result(h, PyNone, "")
assoc_left(h, self) == Result(h, PyNone, "")
specialize(h, self, val) == Result(h, PyNone, "")

\* mutant: precedence-aware printing, no parentheses around products
RECURSIVE Expression_str_bare(_, _)
Expression_str_bare(h, self) ==
    LET left == IF h[self].left # NoChild THEN Expression_str_bare(h, h[self].left) ELSE <<>>
        right == IF h[self].right # NoChild THEN Expression_str_bare(h, h[self].right) ELSE <<>>
    IN  IF left = <<>> /\ right = <<>>
        THEN ValStr(h[self].val)
        ELSE IF h[self].val.o \in {"mul", "div"}
        THEN left \o <<32>> \o ValStr(h[self].val) \o <<32>> \o right
        ELSE <<40>> \o left \o <<32>> \o ValStr(h[self].val) \o <<32>> \o right \o <<41>>

\* Expression.__str__
RECURSIVE Expression_str(_, _)
Expression_str(h, self) ==
    LET left == IF h[self].left # NoChild THEN Expression_str(h, h[self].left) ELSE <<>>
        right == IF h[self].right # NoChild THEN Expression_str(h, h[self].right) ELSE <<>>
    IN  IF left = <<>> /\ right = <<>>
        THEN ValStr(h[self].val)
        ELSE <<40>> \o left \o <<32>> \o ValStr(h[self].val) \o <<32>> \o right \o <<41>>

----------------------------------------------------------------------------
(* The state machine: one action per call a client can make.               *)
(*   heap  the objects built so far                                        *)
(*   ret   the value the last call returned (None when it raised)          *)
(*   exc   the exception the last call raised, "" when it returned         *)
(*   call  the last call, when it built an object or was a commute();      *)
(*         NoCall after a call that returned nothing new or raised         *)
(*   run   the heaps before the last commute() calls: before the last one, *)
(*         and ahead of it the heap before the one that preceded it when   *)
(*         that was a commute() of the same node; empty after other calls  *)

Call(f, a, b, op) == [f |-> f, a |-> a, b |-> b, op |-> op]
NoCall == Call("", PyNone, PyNone, "")

Init ==
    /\ heap = <<>>
    /\ ret = PyNone
    /\ exc = ""
    /\ call = NoCall
    /\ run = <<>>

\* a call c that ended with result r
Returns(r, c) ==
    /\ heap' = r.heap
    /\ ret' = r.ret
    /\ exc' = r.exc
    /\ call' = IF r.heap # heap THEN c ELSE NoCall
    /\ run' = <<>>

Refs(h) == {PyRef(i) : i \in 1..Len(h)}
RefsOf(h, cls) == {PyRef(i) : i \in {j \in 1..Len(h) : h[j].cls = cls}}

\* inputs of the tree specification
TreeNames == {PyStr(<<120>>)}
TreeInts == {PyInt(12)}
TreeOthers == {PyStr(<<120>>)}

\* inputs of the leaf specification
LeafChars == {48, 64, 65, 90, 91, 96, 97, 122, 123, 233}
LeafStrings == UNION {[1..n -> LeafChars] : n \in 0..MaxNameLen}
LeafNames == {PyStr(s) : s \in LeafStrings} \cup {PyList(<<97>>)}
LeafInts == {PyInt(i) : i \in (-3..MaxLeafInt) \cup {100, 1000}}
                \cup {PyStr(<<55>>)}

\* a call that may build k objects is made while the heap has room for them
Room(k, cap) == Len(heap) + k <= cap

\* SymbolicVar(name)
NewSymbolicVar(name, cap) ==
    /\ Room(1, cap)
    /\ Returns(SymbolicVar_init(heap, name), Call("SymbolicVar", name, PyNone, ""))

\* SymbolicNum(val)
NewSymbolicNum(val, cap) ==
    /\ Room(1, cap)
    /\ Returns(SymbolicNum_init(heap, val), Call("SymbolicNum", val, PyNone, ""))

\* CompoundExpression(op, left, right)
NewCompoundExpression(op, left, right) ==
    /\ Room(1, MaxNodes)
    /\ Returns(CompoundExpression_init(heap, op, left, right),
               Call("CompoundExpression", left, right, op))

\* a op b
BinOp(op, a, b) ==
    /\ IsExpression(heap, a) \/ IsExpression(heap, b)
    /\ Room(IF a.t = "int" \/ b.t = "int" THEN 2 ELSE 1, MaxNodes)
    /\ Returns(PyBinOp(heap, op, a, b), Call("binop", a, b, op))

\* a == b
Eq(a, b) ==
    Returns(Expression_eq(heap, a.i, b), Call("eq", a, b, ""))

\* n.assoc_right(), n.assoc_left()
AssocRight(n) ==
    Returns(assoc_right(heap, n.i), Call("assoc_right", n, PyNone, ""))

AssocLeft(n) ==
    Returns(assoc_left(heap, n.i), Call("assoc_left", n, PyNone, ""))

\* n.specialize(val)
Specialize(n, val) ==
    Returns(specialize(heap, n.i, val), Call("specialize", n, val, ""))

\* n.commute()
Commute(n) ==
    /\ heap' = commute(heap, n.i)
    /\ ret' = PyNone
    /\ exc' = ""
    /\ call' = Call("commute", n, PyNone, "")
    /\ run' = IF call = Call("commute", n, PyNone, "")
              THEN <<run[Len(run)], heap>>
              ELSE <<heap>>

Next ==
    \/ \E name \in TreeNames : NewSymbolicVar(name, MaxNodes)
    \/ \E val \in TreeInts \cup {PyInt(-1)} : NewSymbolicNum(val, MaxNodes)
    \/ \E op \in OperatorNames, l, r \in Refs(heap) \cup TreeInts :
            NewCompoundExpression(op, l, r)
    \/ \E op \in OperatorNames, a, b \in Refs(heap) \cup TreeInts \cup TreeOthers :
            BinOp(op, a, b)
    \/ \E n \in RefsOf(heap, "CompoundExpression") : Commute(n)
    \/ \E a \in Refs(heap), b \in Refs(heap) \cup TreeInts : Eq(a, b)
    \/ \E n \in RefsOf(heap, "CompoundExpression") : AssocRight(n)
    \/ \E n \in RefsOf(heap, "CompoundExpression") : AssocLeft(n)
    \/ \E n \in RefsOf(heap, "SymbolicVar"), val \in TreeInts : Specialize(n, val)

Spec == Init /\ [][Next]_vars

\* the leaf constructors alone, over wide inputs
NextLeaf ==
    \/ \E name \in LeafNames : NewSymbolicVar(name, MaxLeafNodes)
    \/ \E val \in LeafInts : NewSymbolicNum(val, MaxLeafNodes)

SpecLeaf == Init /\ [][NextLeaf]_vars

----------------------------------------------------------------------------
(* Helpers of the properties *)

Nodes(h) == 1..Len(h)
IsCompound(h, n) == h[n].cls = "CompoundExpression"
Kids(h, n) == {h[n].left, h[n].right} \ {NoChild}

\* the nodes reachable from the nodes of S in at most k child links
RECURSIVE Closure(_, _, _)
Closure(h, S, k) ==
    IF k = 0 THEN S
    ELSE Closure(h, S \cup UNION {Kids(h, m) : m \in S}, k - 1)

\* the proper descendants of n, and the subtree of n (n included)
Descendants(h, n) == Closure(h, Kids(h, n), Len(h))
Subtree(h, n) == {n} \cup Descendants(h, n)

\* the child slots n occupies
Slots(h, n) ==
    {<<p, "left">> : p \in {q \in Nodes(h) : h[q].left = n}}
        \cup {<<p, "right">> : p \in {q \in Nodes(h) : h[q].right = n}}

\* the tree under n, without object identities
RECURSIVE Tree(_, _)
Tree(h, n) ==
    [cls |-> h[n].cls, val |-> h[n].val,
     left |-> IF h[n].left = NoChild THEN <<>> ELSE <<Tree(h, h[n].left)>>,
     right |-> IF h[n].right = NoChild THEN <<>> ELSE <<Tree(h, h[n].right)>>]

\* number of compound nodes of the tree under n, shared ones counted each time
RECURSIVE CompoundCount(_, _)
CompoundCount(h, n) ==
    IF IsCompound(h, n)
    THEN 1 + CompoundCount(h, h[n].left) + CompoundCount(h, h[n].right)
    ELSE 0

Count(s, c) == Cardinality({i \in 1..Len(s) : s[i] = c})

\* the glyphs + - (U+00D7) (U+00F7) as code points
Glyph(o) ==
    CASE o = "add" -> 43
      [] o = "sub" -> 45
      [] o = "mul" -> 215
      [] o = "div" -> 247

\* the number a string of decimal digits denotes
RECURSIVE DecValue(_)
DecValue(s) ==
    IF s = <<>> THEN 0
    ELSE 10 * DecValue(SubSeq(s, 1, Len(s) - 1)) + (s[Len(s)] - 48)

\* s is the decimal numeral of n: digits only, no leading zero
IsDecimalOf(s, n) ==
    /\ Len(s) >= 1
    /\ \A i \in 1..Len(s) : s[i] \in 48..57
    /\ Len(s) > 1 => s[1] # 48
    /\ DecValue(s) = n

----------------------------------------------------------------------------
(* Properties *)

\* C1: a compound node renders as "(" render(left) " " glyph " " render(right) ")"
\* with the glyphs + - (U+00D7) (U+00F7), a leaf renders as its bare value
\* without parentheses, and so the rendering of any tree has exactly one pair
\* of parentheses per compound node of the tree.
C1_RenderShape ==
    \A n \in Nodes(heap) :
        LET str == Expression_str(heap, n)
        IN  IF IsCompound(heap, n)
            THEN /\ str = <<40>> \o Expression_str(heap, heap[n].left)
                            \o <<32, Glyph(heap[n].val.o), 32>>
                            \o Expression_str(heap, heap[n].right) \o <<41>>
                 /\ Count(str, 40) = CompoundCount(heap, n)
                 /\ Count(str, 41) = CompoundCount(heap, n)
            ELSE /\ Count(str, 40) = 0 /\ Count(str, 41) = 0
                 /\ heap[n].cls = "SymbolicVar" => str = heap[n].val.s
                 /\ heap[n].cls = "SymbolicNum" => IsDecimalOf(str, heap[n].val.i)

\* a product whose left operand is a compound has been built and renders
\* with two pairs of parentheses
C1_Witness ==
    \E n \in Nodes(heap) :
        /\ IsCompound(heap, n)
        /\ heap[n].val.o \in {"mul", "div"}
        /\ IsCompound(heap, heap[n].left)
        /\ Count(Expression_str(heap, n), 40) = 2

\* C6 as stated: every node occupies at most one child slot in total.
C6_ExclusiveOwnership ==
    \A n \in Nodes(heap) : Cardinality(Slots(heap, n)) <= 1

\* C6 amended: a node may occupy several child slots, and commute() on a
\* node leaves the rendering of every expression that does not contain that
\* node as a subtree as it was.
C6_CommuteIsLocal ==
    call.f = "commute" =>
        LET before == run[Len(run)]
        IN  \A m \in Nodes(heap) :
                call.a.i \notin Subtree(heap, m) =>
                    Expression_str(heap, m) = Expression_str(before, m)

\* commute() has acted on a node one of whose children occupies two slots,
\* that child being an expression that does not contain the commuted node
C6_Witness ==
    /\ call.f = "commute"
    /\ \E m \in Nodes(heap) :
        /\ Cardinality(Slots(heap, m)) >= 2
        /\ m \in Kids(heap, call.a.i)
        /\ call.a.i \notin Subtree(heap, m)

\* C7: the child relation is acyclic (no node is among its own descendants;
\* the children of a node were built before it), whatever the calls made.
C7_Acyclic ==
    \A n \in Nodes(heap) :
        /\ n \notin Descendants(heap, n)
        /\ \A k \in Kids(heap, n) : k < n

\* commute() has acted on the root of a tree of depth two
C7_Witness ==
    /\ call.f = "commute"
    /\ \E k \in Kids(heap, call.a.i) : Kids(heap, k) # {}

\* C4: commute() on a compound with any operator does not fail, puts the
\* previous right child left and the previous left child right, and leaves
\* the operator of the node and every other node as they were; "(L op R)"
\* renders "(R op L)" afterwards, L and R rendering as before.
C4_CommuteSwaps ==
    /\ \A n \in RefsOf(heap, "CompoundExpression") : ENABLED Commute(n)
    /\ call.f = "commute" =>
        LET n == call.a.i
            before == run[Len(run)]
            L == Expression_str(before, before[n].left)
            R == Expression_str(before, before[n].right)
            g == <<32, Glyph(before[n].val.o), 32>>
        IN  /\ exc = ""
            /\ Len(heap) = Len(before)
            /\ heap[n].left = before[n].right
            /\ heap[n].right = before[n].left
            /\ heap[n].val = before[n].val
            /\ heap[n].cls = before[n].cls
            /\ \A m \in Nodes(heap) \ {n} : heap[m] = before[m]
            /\ Expression_str(before, n) = <<40>> \o L \o g \o R \o <<41>>
            /\ Expression_str(heap, n) = <<40>> \o R \o g \o L \o <<41>>
            /\ Expression_str(heap, heap[n].left) = R
            /\ Expression_str(heap, heap[n].right) = L

\* commute() has acted on a difference or quotient with two different
\* children, one of them a compound
C4_Witness ==
    /\ call.f = "commute"
    /\ heap[call.a.i].val.o \in {"sub", "div"}
    /\ heap[call.a.i].left # heap[call.a.i].right
    /\ \E k \in Kids(heap, call.a.i) : IsCompound(heap, k)

\* C5: two commute() calls in a row on one node restore the children of
\* every node and every rendering.
C5_CommuteTwice ==
    Len(run) = 2 =>
        /\ heap = run[1]
        /\ \A m \in Nodes(heap) : Expression_str(heap, m) = Expression_str(run[1], m)

\* the second of two commute() calls in a row has acted on a node with two
\* different children
C5_Witness ==
    /\ Len(run) = 2
    /\ call.f = "commute"
    /\ heap[call.a.i].left # heap[call.a.i].right
    /\ run[2] # heap

\* the tree `s op SymbolicNum(n)` builds from heap h
PromotedByHand(h, op, s, n) ==
    LET num == SymbolicNum_init(h, n)
        r == PyBinOp(num.heap, op, s, num.ret)
    IN  Tree(r.heap, r.ret.i)

\* C3: with s a symbol and n a plain integer >= 0, `s op n` builds the tree
\* of `s op SymbolicNum(n)` (left s, right SymbolicNum(n)) and `n op s`
\* builds a compound with left SymbolicNum(n) and right s, rendered
\* "(n op s)" and not "(s op n)".
C3_Promotion ==
    \A op \in OperatorNames, s \in RefsOf(heap, "SymbolicVar"), n \in TreeInts :
        LET fwd == PyBinOp(heap, op, s, n)
            rfl == PyBinOp(heap, op, n, s)
            sstr == Expression_str(heap, s.i)
            g == <<32, Glyph(op), 32>>
            leaf == Node_init("SymbolicNum", Node(n), NoChild, NoChild)
        IN  /\ fwd.exc = "" /\ fwd.ret.t = "ref"
            /\ LET h == fwd.heap
                   new == fwd.ret.i
                   nstr == Expression_str(h, h[new].right)
               IN  /\ SubSeq(h, 1, Len(heap)) = heap
                   /\ h[new].cls = "CompoundExpression"
                   /\ h[new].val.o = op
                   /\ h[new].left = s.i
                   /\ h[h[new].right] = leaf
                   /\ Tree(h, new) = PromotedByHand(heap, op, s, n)
                   /\ IsDecimalOf(nstr, n.i)
                   /\ Expression_str(h, new) = <<40>> \o sstr \o g \o nstr \o <<41>>
            /\ rfl.exc = "" /\ rfl.ret.t = "ref"
            /\ LET h == rfl.heap
                   new == rfl.ret.i
                   nstr == Expression_str(h, h[new].left)
               IN  /\ SubSeq(h, 1, Len(heap)) = heap
                   /\ h[new].cls = "CompoundExpression"
                   /\ h[new].val.o = op
                   /\ h[new].right = s.i
                   /\ h[h[new].left] = leaf
                   /\ IsDecimalOf(nstr, n.i)
                   /\ Expression_str(h, new) = <<40>> \o nstr \o g \o sstr \o <<41>>
                   /\ Expression_str(h, new) # <<40>> \o sstr \o g \o nstr \o <<41>>

\* `12 - x` has been evaluated and its result renders "(12 - x)"
C3_Witness ==
    /\ call.f = "binop" /\ call.op = "sub"
    /\ call.a = PyInt(12)
    /\ call.b.t = "ref" /\ heap[call.b.i].cls = "SymbolicVar"
    /\ ret.t = "ref"
    /\ Expression_str(heap, ret.i) = <<40, 49, 50, 32, 45, 32, 120, 41>>

\* C2 as stated: for Expressions E and F of any variant and each operator,
\* `E op F` returns a CompoundExpression with root operator op, left child E
\* and right child F.
C2_CombinatorBuilds ==
    [][\A op \in OperatorNames, E, F \in Refs(heap) :
        BinOp(op, E, F) =>
            /\ exc' = "" /\ ret'.t = "ref"
            /\ heap'[ret'.i] = Node_init("CompoundExpression", PyOp(op), E.i, F.i)
    ]_vars

\* C10 as stated: ==, assoc_right, assoc_left, specialize and the combinator
\* hook of SymbolicNum end in an explicit "not implemented" failure whenever
\* they are invoked, never in a silent return.
C10_StubsFailLoudly ==
    [][/\ \A a, b \in Refs(heap) : Eq(a, b) => exc' # ""
       /\ \A n \in RefsOf(heap, "CompoundExpression") :
            /\ AssocRight(n) => exc' # ""
            /\ AssocLeft(n) => exc' # ""
       /\ \A n \in RefsOf(heap, "SymbolicVar"), val \in TreeInts :
            Specialize(n, val) => exc' # ""
       /\ \A op \in OperatorNames, n \in RefsOf(heap, "SymbolicNum"),
             other \in Refs(heap) \cup TreeInts :
            /\ BinOp(op, n, other) => exc' # ""
            /\ (other.t = "int" /\ BinOp(op, other, n)) => exc' # ""
    ]_vars

\* the names SymbolicVar is to accept: one ASCII letter
IsLetterName(name) ==
    /\ Len(name.s) = 1
    /\ name.s[1] \in (65..90) \cup (97..122)

\* C8: SymbolicVar(name) succeeds exactly for a string of one ASCII letter,
\* building a childless leaf that renders as that character; for every other
\* string it raises the ValueError and builds nothing.
C8_SymbolicVar ==
    \A name \in {x \in LeafNames : x.t = "str"} :
        LET r == SymbolicVar_init(heap, name)
        IN  IF IsLetterName(name)
            THEN /\ r.exc = "" /\ r.ret = PyRef(Len(heap) + 1)
                 /\ SubSeq(r.heap, 1, Len(heap)) = heap
                 /\ Len(r.heap) = Len(heap) + 1
                 /\ r.heap[r.ret.i].cls = "SymbolicVar"
                 /\ r.heap[r.ret.i].left = NoChild /\ r.heap[r.ret.i].right = NoChild
                 /\ Expression_str(r.heap, r.ret.i) = name.s
            ELSE /\ r.exc = "ValueError: Symbol name must be an upper or lower-case string of length 1."
                 /\ r.heap = heap

\* an upper-case symbol has been built and a later SymbolicVar call was refused
C8_Witness ==
    /\ Len(heap) = 1
    /\ heap[1].cls = "SymbolicVar"
    /\ Expression_str(heap, 1) = <<90>>
    /\ exc = ValueErrorSymbol

\* C9: SymbolicNum(n) succeeds exactly for an integer n >= 0, building a
\* childless leaf that renders as the decimal digits of n; for n < 0 it
\* raises the ValueError and builds nothing.
C9_SymbolicNum ==
    \A val \in {x \in LeafInts : x.t = "int"} :
        LET r == SymbolicNum_init(heap, val)
        IN  IF val.i >= 0
            THEN /\ r.exc = "" /\ r.ret = PyRef(Len(heap) + 1)
                 /\ SubSeq(r.heap, 1, Len(heap)) = heap
                 /\ Len(r.heap) = Len(heap) + 1
                 /\ r.heap[r.ret.i].cls = "SymbolicNum"
                 /\ r.heap[r.ret.i].left = NoChild /\ r.heap[r.ret.i].right = NoChild
                 /\ IsDecimalOf(Expression_str(r.heap, r.ret.i), val.i)
            ELSE /\ r.exc = "ValueError: Constant must be a non-negative integer."
                 /\ r.heap = heap

\* the constant 0 has been built and a later SymbolicNum call was refused
C9_Witness ==
    /\ Len(heap) = 1
    /\ heap[1].cls = "SymbolicNum"
    /\ Expression_str(heap, 1) = <<48>>
    /\ exc = ValueErrorConstant

====
